---- MODULE Spec2Model ----
(***************************************************************************)
(* A model of the pz-data block grammar (src/src/lib.rs): the nom          *)
(* combinators the crate is built from, the block layer (block,            *)
(* unnamed_block, named_block, named_block_repeated, module) and the       *)
(* recipe grammar.                                                         *)
(*                                                                         *)
(* A text is a sequence of one-character strings.  A parser is an operator *)
(* of (s, i): s is the whole text and i the number of characters already   *)
(* consumed.  It yields Ok(j, v) -- j characters consumed, value v -- or   *)
(* Err(j, k): nom's Err::Error carrying the remaining input (here its      *)
(* offset j) and the ErrorKind k.                                          *)
(***************************************************************************)
EXTENDS Integers, Sequences, FiniteSets, TLC

VARIABLES
    input,   \* the text handed to the parser
    src,     \* the pieces the text was written from (<<>> for arbitrary texts)
    call,    \* the parser that was called, with its item parser
    result   \* what the call returned

vars == <<input, src, call, result>>

-----------------------------------------------------------------------------
(* Results *)

Ok(j, v) == [ok |-> TRUE, pos |-> j, val |-> v, kind |-> "Ok"]

Err(j, k) == [ok |-> FALSE, pos |-> j, val |-> <<>>, kind |-> k]

-----------------------------------------------------------------------------
(* Character classes (nom::character, AsChar) *)

Lower == {"a","b","c","d","e","f","g","h","i","j","k","l","m",
          "n","o","p","q","r","s","t","u","v","w","x","y","z"}

Upper == {"A","B","C","D","E","F","G","H","I","J","K","L","M",
          "N","O","P","Q","R","S","T","U","V","W","X","Y","Z"}

Digit == {"0","1","2","3","4","5","6","7","8","9"}

\* The character classes, as the sets of characters the predicates accept.
Space == {" ", "\t"}

Multispace == {" ", "\t", "\r", "\n"}

Alphanum == Lower \cup Upper \cup Digit

\* char::is_whitespace, of the characters of the model.
Whitespace == {" ", "\t", "\r", "\n"}

is_whitespace(c) == c \in Whitespace

\* The offset at which the longest run of characters of class C, starting
\* at offset i, ends.
RunEnd(C, s, i) ==
    CHOOSE j \in i..Len(s) :
        /\ \A k \in (i + 1)..j : s[k] \in C
        /\ (j = Len(s) \/ s[j + 1] \notin C)

\* split_at_position1_complete stopping at the first character outside C:
\* at least one character, and the whole rest when no character stops it.
TakeWhile1(C, kind, s, i) ==
    LET j == RunEnd(C, s, i)
    IN  IF j = i THEN Err(i, kind) ELSE Ok(j, SubSeq(s, i + 1, j))

tag(t, s, i) ==
    IF i + Len(t) <= Len(s) /\ SubSeq(s, i + 1, i + Len(t)) = t
    THEN Ok(i + Len(t), t)
    ELSE Err(i, "Tag")

space0(s, i) == Ok(RunEnd(Space, s, i), <<>>)

space1(s, i) == TakeWhile1(Space, "Space", s, i)

multispace1(s, i) == TakeWhile1(Multispace, "MultiSpace", s, i)

alphanumeric1(s, i) == TakeWhile1(Alphanum, "AlphaNumeric", s, i)

digit1(s, i) == TakeWhile1(Digit, "Digit", s, i)

-----------------------------------------------------------------------------
(* Texts: a character is a one-element string; "U+E9" stands for a          *)
(* character whose UTF-8 encoding takes two bytes.                          *)

Wide == {"U+E9"}

\* char::len_utf8
len_utf8(c) == IF c \in Wide THEN 2 ELSE 1

\* str::trim_end, as the number of characters kept.
trim_end_len(t) ==
    CHOOSE n \in 0..Len(t) :
        /\ \A k \in (n + 1)..Len(t) : is_whitespace(t[k])
        /\ (n = 0 \/ ~is_whitespace(t[n]))

trim_end(t) == SubSeq(t, 1, trim_end_len(t))

\* A panic (slicing a str off a character boundary) is no error value: no
\* combinator recovers from it.
Panic(j) == [ok |-> FALSE, pos |-> j, val |-> <<>>, kind |-> "PANIC"]

IsPanic(r) == ~r.ok /\ r.kind = "PANIC"

-----------------------------------------------------------------------------
(* Literals of the grammar *)

OpenBrace == <<"{">>

CloseBrace == <<"}">>

Comma == <<",">>

Colon == <<":">>

ModuleTag == <<"m","o","d","u","l","e">>

RecipeTag == <<"r","e","c","i","p","e">>

ItemTag == <<"i","t","e","m">>

FooLit == <<"f","o","o">>

NilLit == <<"N","i","l">>

BlockItemLit == <<"b","l","o","c","k","_","i","t","e","m">>

-----------------------------------------------------------------------------
(* Name extraction *)

\* The offset of the first "{" at or after offset i; Len(s) when there is none.
FirstBrace(s, i) ==
    CHOOSE j \in i..Len(s) :
        /\ \A k \in (i + 1)..j : s[k] # "{"
        /\ (j = Len(s) \/ s[j + 1] = "{")

non_curly_brace(s, i) ==
    LET j == FirstBrace(s, i)
    IN  IF j = i THEN Err(i, "Char") ELSE Ok(j, SubSeq(s, i + 1, j))

string_with_spaces_delimited_by_open_brace(s, i) ==
    LET r == non_curly_brace(s, i)
    IN  IF ~r.ok THEN r
        ELSE LET name_trailing_space_and_brace == r.val
                 n == Len(name_trailing_space_and_brace)
             IN  IF len_utf8(name_trailing_space_and_brace[n]) > 1
                 THEN Panic(i)
                 ELSE LET name_and_trailing_space ==
                              SubSeq(name_trailing_space_and_brace, 1, n - 1)
                          trimmed_name == trim_end(name_and_trailing_space)
                      IN  Ok(i + Len(trimmed_name), trimmed_name)

-----------------------------------------------------------------------------
(* Item parsers.  A caller-supplied parser is named by a sequence of       *)
(* strings: its combinator followed by the name of the parser it wraps.    *)

RECURSIVE Parse(_, _, _)

\* The number a run of decimal digits denotes (str::parse).
RECURSIVE DecValue(_)
DecValue(ds) ==
    IF ds = <<>> THEN 0
    ELSE LET c == ds[Len(ds)]
             d == CHOOSE n \in 0..9 :
                      c = <<"0","1","2","3","4","5","6","7","8","9">>[n + 1]
         IN  10 * DecValue(SubSeq(ds, 1, Len(ds) - 1)) + d

\* Rust's `?` on an IResult: the parsers after a failed one are not run.
Then(r, F(_)) == IF r.ok THEN F(r) ELSE r

\* map_res(digit1, |s| s.parse::<u8>()): a number over u8::MAX is an error
\* of kind MapRes at the first digit.
u8_value(s, i) ==
    Then(digit1(s, i), LAMBDA r :
    IF DecValue(r.val) > 255 THEN Err(i, "MapRes") ELSE Ok(r.pos, DecValue(r.val)))

\* preceded(pair(tag("block_item"), space1), map_res(digit1, parse::<u8>))
block_item(s, i) ==
    Then(tag(BlockItemLit, s, i), LAMBDA r1 :
    Then(space1(s, r1.pos), LAMBDA r2 :
    u8_value(s, r2.pos)))

-----------------------------------------------------------------------------
(* Block grammar *)

\* block with the whitespace inside the braces optional (multispace0).
block_multispace0(item, s, i) ==
    Then(tag(OpenBrace, s, i), LAMBDA r1 :
    Then(Parse(item, s, RunEnd(Multispace, s, r1.pos)), LAMBDA r3 :
    Then(tag(CloseBrace, s, RunEnd(Multispace, s, r3.pos)), LAMBDA r5 :
    Ok(r5.pos, r3.val))))

\* delimited(pair(tag("{"), multispace1), item, pair(multispace1, tag("}")))
block(item, s, i) ==
    Then(tag(OpenBrace, s, i), LAMBDA r1 :
    Then(multispace1(s, r1.pos), LAMBDA r2 :
    Then(Parse(item, s, r2.pos), LAMBDA r3 :
    Then(multispace1(s, r3.pos), LAMBDA r4 :
    Then(tag(CloseBrace, s, r4.pos), LAMBDA r5 :
    Ok(r5.pos, r3.val))))))

unnamed_block(block_tag, item, s, i) ==
    Then(tag(block_tag, s, i), LAMBDA r1 :
    Then(multispace1(s, r1.pos), LAMBDA r2 :
    block(item, s, r2.pos)))

\* named_block with space1 between the name and the "{": the brace must
\* stand on the line of the name.
named_block_space1(block_tag, item, s, i) ==
    Then(tag(block_tag, s, i), LAMBDA r1 :
    Then(space1(s, r1.pos), LAMBDA r2 :
    Then(string_with_spaces_delimited_by_open_brace(s, r2.pos), LAMBDA r3 :
    Then(space1(s, r3.pos), LAMBDA r4 :
    Then(block(item, s, r4.pos), LAMBDA r5 :
    Ok(r5.pos, [name |-> r3.val, item |-> r5.val]))))))

named_block(block_tag, item, s, i) ==
    Then(tag(block_tag, s, i), LAMBDA r1 :
    Then(space1(s, r1.pos), LAMBDA r2 :
    Then(string_with_spaces_delimited_by_open_brace(s, r2.pos), LAMBDA r3 :
    Then(multispace1(s, r3.pos), LAMBDA r4 :
    Then(block(item, s, r4.pos), LAMBDA r5 :
    Ok(r5.pos, [name |-> r3.val, item |-> r5.val]))))))

RECURSIVE separated_list1_loop(_, _, _, _)

\* separated_list1 putting each new element in front of the earlier ones.
separated_list1_element_prepend(item, s, i, j, res) ==
    IF j = i THEN Err(j, "SeparatedList")
    ELSE LET r == Parse(item, s, j)
         IN  IF IsPanic(r) THEN r
             ELSE IF ~r.ok THEN Ok(i, res)
             ELSE separated_list1_loop(item, s, r.pos, <<r.val>> \o res)

\* One round of the loop of nom's separated_list1, after a separator was
\* read from offset i to offset j: an Err::Error of the element ends the
\* list with what was parsed before that separator.
separated_list1_element(item, s, i, j, res) ==
    IF j = i THEN Err(j, "SeparatedList")
    ELSE LET r == Parse(item, s, j)
         IN  IF IsPanic(r) THEN r
             ELSE IF ~r.ok THEN Ok(i, res)
             ELSE separated_list1_loop(item, s, r.pos, Append(res, r.val))

\* The loop of separated_list1(multispace1, item) after an element: an
\* Err::Error of the separator ends the list.
separated_list1_loop(item, s, i, res) ==
    LET r == multispace1(s, i)
    IN  IF ~r.ok THEN Ok(i, res)
        ELSE separated_list1_element(item, s, i, r.pos, res)

\* separated_list1 that parses the first element and does not keep it.
separated_list1_first_dropped(item, s, i) ==
    Then(Parse(item, s, i), LAMBDA r :
    separated_list1_loop(item, s, r.pos, <<>>))

separated_list1(item, s, i) ==
    Then(Parse(item, s, i), LAMBDA r :
    separated_list1_loop(item, s, r.pos, <<r.val>>))

named_block_repeated(block_tag, item, s, i) ==
    named_block(block_tag, <<"separated_list1">> \o item, s, i)

\* Parser::into: From<(&str, Vec<T>)> for ModuleBlock<T>
ModuleBlock(v) == [name |-> v.name, definitions |-> v.item]

module(item, s, i) ==
    Then(named_block_repeated(ModuleTag, item, s, i), LAMBDA r :
    Ok(r.pos, ModuleBlock(r.val)))

-----------------------------------------------------------------------------
(* Atoms and the field-value grammar *)

ResultLit == <<"R","e","s","u","l","t">>

TimeLit == <<"T","i","m","e">>

CategoryLit == <<"C","a","t","e","g","o","r","y">>

NeedToBeLearnLit == <<"N","e","e","d","T","o","B","e","L","e","a","r","n">>

TrueLit == <<"t","r","u","e">>

FalseLit == <<"f","a","l","s","e">>

\* alt((map(tag("true"), |_| true), map(tag("false"), |_| false)))
bool_value(s, i) ==
    IF tag(TrueLit, s, i).ok THEN Ok(tag(TrueLit, s, i).pos, TRUE)
    ELSE Then(tag(FalseLit, s, i), LAMBDA r : Ok(r.pos, FALSE))

\* The characters identifier1 does not stop at.
Identifier == Alphanum \cup {"."}

identifier1(s, i) == TakeWhile1(Identifier, "RegexpFind", s, i)

\* The character at offset i of s, "" past the end.
At(s, i) == IF i < Len(s) THEN s[i + 1] ELSE ""

\* A decimal number m * 10^e without trailing zeros in m.
RECURSIVE Decimal(_, _)
Decimal(m, e) ==
    IF m = 0 THEN [m |-> 0, e |-> 0]
    ELSE IF m % 10 = 0 THEN Decimal(m \div 10, e + 1)
    ELSE [m |-> m, e |-> e]

\* nom's float: an optional sign, digits with an optional fraction or a
\* fraction alone, and an optional exponent.  The value is the decimal
\* number the text denotes (its rounding to f32 is left out).
float(s, i) ==
    LET signEnd == IF At(s, i) \in {"+", "-"} THEN i + 1 ELSE i
        intEnd == RunEnd(Digit, s, signEnd)
        fracEnd == IF At(s, intEnd) = "." THEN RunEnd(Digit, s, intEnd + 1)
                   ELSE intEnd
        recognized == IF intEnd > signEnd THEN TRUE
                      ELSE At(s, intEnd) = "." /\ fracEnd > intEnd + 1
        hasExp == At(s, fracEnd) \in {"e", "E"}
        expSignEnd == IF At(s, fracEnd + 1) \in {"+", "-"} THEN fracEnd + 2
                      ELSE fracEnd + 1
        expEnd == RunEnd(Digit, s, expSignEnd)
        digits == SubSeq(s, signEnd + 1, intEnd) \o SubSeq(s, intEnd + 2, fracEnd)
        scale == IF fracEnd > intEnd THEN fracEnd - intEnd - 1 ELSE 0
        sign == IF At(s, i) = "-" THEN -1 ELSE 1
        exp == IF hasExp
               THEN (IF At(s, fracEnd + 1) = "-" THEN -1 ELSE 1)
                        * DecValue(SubSeq(s, expSignEnd + 1, expEnd))
               ELSE 0
    IN  IF ~recognized THEN Err(i, "Float")
        ELSE IF hasExp /\ expEnd = expSignEnd THEN Err(expSignEnd, "Digit")
        ELSE Ok(IF hasExp THEN expEnd ELSE fracEnd,
                Decimal(sign * DecValue(digits), exp - scale))

\* field_value with the trailing "," optional.
field_value_comma_optional(field_name, separator, value, s, i) ==
    Then(space0(s, i), LAMBDA r0 :
    Then(tag(field_name, s, r0.pos), LAMBDA r1 :
    Then(space0(s, r1.pos), LAMBDA r2 :
    Then(tag(separator, s, r2.pos), LAMBDA r3 :
    Then(space0(s, r3.pos), LAMBDA r4 :
    Then(Parse(value, s, r4.pos), LAMBDA r5 :
    IF tag(Comma, s, r5.pos).ok THEN Ok(r5.pos + 1, r5.val)
    ELSE Ok(r5.pos, r5.val)))))))

\* preceded(space0, tag(field_name)); delimited(space0, tag(separator),
\* space0); value; tag(",")
field_value(field_name, separator, value, s, i) ==
    Then(space0(s, i), LAMBDA r0 :
    Then(tag(field_name, s, r0.pos), LAMBDA r1 :
    Then(space0(s, r1.pos), LAMBDA r2 :
    Then(tag(separator, s, r2.pos), LAMBDA r3 :
    Then(space0(s, r3.pos), LAMBDA r4 :
    Then(Parse(value, s, r4.pos), LAMBDA r5 :
    Then(tag(Comma, s, r5.pos), LAMBDA r6 :
    Ok(r6.pos, r5.val))))))))

-----------------------------------------------------------------------------
(* The recipe grammar *)

\* terminated(identifier1, tag(","))
recipe_ingredient(s, i) ==
    Then(identifier1(s, i), LAMBDA r1 :
    Then(tag(Comma, s, r1.pos), LAMBDA r2 :
    Ok(r2.pos, r1.val)))

\* recipe_body with the Category field read before the Time field.
recipe_body_category_first(s, i) ==
    Then(separated_list1(<<"recipe_ingredient">>, s, i), LAMBDA ingredients :
    Then(multispace1(s, ingredients.pos), LAMBDA w1 :
    Then(field_value(ResultLit, Colon, <<"alphanumeric1">>, s, w1.pos), LAMBDA res :
    Then(multispace1(s, res.pos), LAMBDA w2 :
    Then(field_value(CategoryLit, Colon, <<"alphanumeric1">>, s, w2.pos), LAMBDA category :
    Then(multispace1(s, category.pos), LAMBDA w3 :
    Then(field_value(TimeLit, Colon, <<"float">>, s, w3.pos), LAMBDA time :
    Then(multispace1(s, time.pos), LAMBDA w4 :
    Then(field_value(NeedToBeLearnLit, Colon, <<"bool_value">>, s, w4.pos), LAMBDA learn :
    Ok(learn.pos,
       [ingredients |-> ingredients.val, result |-> res.val, time |-> time.val,
        category |-> category.val, need_to_be_learned |-> learn.val]))))))))))

recipe_body(s, i) ==
    Then(separated_list1(<<"recipe_ingredient">>, s, i), LAMBDA ingredients :
    Then(multispace1(s, ingredients.pos), LAMBDA w1 :
    Then(field_value(ResultLit, Colon, <<"alphanumeric1">>, s, w1.pos), LAMBDA res :
    Then(multispace1(s, res.pos), LAMBDA w2 :
    Then(field_value(TimeLit, Colon, <<"float">>, s, w2.pos), LAMBDA time :
    Then(multispace1(s, time.pos), LAMBDA w3 :
    Then(field_value(CategoryLit, Colon, <<"alphanumeric1">>, s, w3.pos), LAMBDA category :
    Then(multispace1(s, category.pos), LAMBDA w4 :
    Then(field_value(NeedToBeLearnLit, Colon, <<"bool_value">>, s, w4.pos), LAMBDA learn :
    Ok(learn.pos,
       [ingredients |-> ingredients.val, result |-> res.val, time |-> time.val,
        category |-> category.val, need_to_be_learned |-> learn.val]))))))))))

\* From<(&str, RecipeBody)> for Recipe
Recipe(v) ==
    [name |-> v.name, ingredients |-> v.item.ingredients, result |-> v.item.result,
     time |-> v.item.time, category |-> v.item.category,
     need_to_be_learned |-> v.item.need_to_be_learned]

recipe(s, i) ==
    Then(named_block(RecipeTag, <<"recipe_body">>, s, i), LAMBDA r :
    Ok(r.pos, Recipe(r.val)))

Parse(p, s, i) ==
    CASE Head(p) = "foo" -> tag(FooLit, s, i)
      [] Head(p) = "Nil" -> tag(NilLit, s, i)
      [] Head(p) = "block_item" -> block_item(s, i)
      [] Head(p) = "item" -> named_block(ItemTag, Tail(p), s, i)
      [] Head(p) = "separated_list1" -> separated_list1(Tail(p), s, i)
      [] Head(p) = "alphanumeric1" -> alphanumeric1(s, i)
      [] Head(p) = "float" -> float(s, i)
      [] Head(p) = "bool_value" -> bool_value(s, i)
      [] Head(p) = "recipe_ingredient" -> recipe_ingredient(s, i)
      [] Head(p) = "recipe_body" -> recipe_body(s, i)

-----------------------------------------------------------------------------
(* Input texts *)

\* The longest text between the block tag and the "{" that is enumerated.
MaxRegion == 5

\* The most items a generated block body holds.
MaxItems == 2

\* All texts over alphabet A of at most n characters.
Texts(A, n) == UNION {[1..k -> A] : k \in 0..n}

RECURSIVE Join(_, _)
Join(parts, sep) ==
    IF parts = <<>> THEN <<>>
    ELSE IF Len(parts) = 1 THEN parts[1]
    ELSE parts[1] \o sep \o Join(Tail(parts), sep)

\* What may stand between the tag and the "{": every short text of name
\* characters, blanks, newlines and a two-byte character.
Regions == Texts({"a", " ", "\n", "U+E9"}, MaxRegion)

\* Whitespace next to a brace or between two items.
Pads == {<<>>, <<" ">>, <<"\n">>, <<" ", "\n">>}

Seps == {<<" ">>, <<"\t">>, <<"\n">>, <<"\n", " ">>}

\* Item texts: for each item parser one it accepts and ones it rejects.
ItemTexts ==
    { FooLit,
      BlockItemLit \o <<" ", "7">>,
      BlockItemLit \o <<" ", "x">>,
      BlockItemLit \o <<" ", "2", "5", "6">>,
      ItemTag \o <<" ", "a", " ", "{", " ">> \o NilLit \o <<" ", "}">>,
      ItemTag \o <<" ", "a", " ", "{", " ">> \o FooLit \o <<" ", "}">> }

Bodies ==
    { Join(items, sep) :
        items \in UNION {[1..k -> ItemTexts] : k \in 0..MaxItems}, sep \in Seps }

BlockText(region, open, body, close) ==
    ModuleTag \o region \o OpenBrace \o open \o body \o close \o CloseBrace

\* Every region with a plain body, and every body and padding under a few
\* regions.
BlockTexts ==
    { BlockText(region, <<" ">>, body, <<" ">>) :
        region \in Regions, body \in {FooLit, FooLit \o <<" ">> \o FooLit} }
    \cup
    { BlockText(region, open, body, close) :
        region \in {<<" ">>, <<" ", "a", " ">>, <<" ", "a", "\n">>},
        open \in Pads, body \in Bodies, close \in Pads }

ItemParsers == {<<"foo">>, <<"block_item">>, <<"item", "Nil">>}

-----------------------------------------------------------------------------
(* The state machine: a text is handed to one of the crate's parsers.      *)

NoCall == [fn |-> "none", item |-> <<>>]

NoResult == [ok |-> FALSE, pos |-> 0, val |-> <<>>, kind |-> "None"]

Init ==
    /\ input \in BlockTexts
    /\ src = <<>>
    /\ call = NoCall
    /\ result = NoResult

CallUnnamedBlock ==
    /\ call = NoCall
    /\ \E p \in ItemParsers :
        /\ call' = [fn |-> "unnamed_block", item |-> p]
        /\ result' = unnamed_block(ModuleTag, p, input, 0)
    /\ UNCHANGED <<input, src>>

CallNamedBlock ==
    /\ call = NoCall
    /\ \E p \in ItemParsers :
        /\ call' = [fn |-> "named_block", item |-> p]
        /\ result' = named_block(ModuleTag, p, input, 0)
    /\ UNCHANGED <<input, src>>

CallNamedBlockRepeated ==
    /\ call = NoCall
    /\ \E p \in ItemParsers :
        /\ call' = [fn |-> "named_block_repeated", item |-> p]
        /\ result' = named_block_repeated(ModuleTag, p, input, 0)
    /\ UNCHANGED <<input, src>>

CallModule ==
    /\ call = NoCall
    /\ \E p \in ItemParsers :
        /\ call' = [fn |-> "module", item |-> p]
        /\ result' = module(p, input, 0)
    /\ UNCHANGED <<input, src>>

Next ==
    \/ CallUnnamedBlock
    \/ CallNamedBlock
    \/ CallNamedBlockRepeated
    \/ CallModule

Spec == Init /\ [][Next]_vars

-----------------------------------------------------------------------------
(* Properties of the block grammar *)

Named == call.fn \in {"named_block", "named_block_repeated", "module"}

Repeated == call.fn \in {"named_block_repeated", "module"}

Called == call # NoCall

\* The definitions a repeated block returned.
Definitions == IF call.fn = "module" THEN result.val.definitions ELSE result.val.item

\* The offset of the first "{" of the input, and of its last character.
BraceAt == FirstBrace(input, 0) + 1

\* The text between the block tag and the first "{".
Region == SubSeq(input, Len(ModuleTag) + 1, BraceAt - 1)

\* The text between the first "{" and the last character of the input.
Body == SubSeq(input, BraceAt + 1, Len(input) - 1)

AllWhitespace(t) == \A k \in 1..Len(t) : is_whitespace(t[k])

\* t without its leading and trailing whitespace.
Trim(t) ==
    LET kept == {k \in 1..Len(t) : ~is_whitespace(t[k])}
    IN  IF kept = {} THEN <<>>
        ELSE SubSeq(t, CHOOSE a \in kept : \A k \in kept : a <= k,
                       CHOOSE b \in kept : \A k \in kept : b >= k)

\* C3: whenever named_block, named_block_repeated or module succeeds, the
\* name it returns is not the empty string.
C3_NameNonEmpty == (Named /\ result.ok) => result.val.name # <<>>

\* C4: whenever named_block_repeated or module succeeds, the definitions
\* hold at least one element, and a block whose body is empty or all
\* whitespace is rejected.
C4_AtLeastOneDefinition ==
    Repeated =>
        /\ result.ok => Len(Definitions) >= 1
        /\ AllWhitespace(Body) => ~result.ok

C4_Witness ==
    /\ call.fn = "module"
    /\ Body = <<" ">>
    /\ Region = <<" ", "a", " ">>
    /\ ~result.ok
    /\ result.kind = "Tag"

\* C5: unnamed_block, named_block and named_block_repeated succeed only
\* if a whitespace character follows the opening "{" and a whitespace
\* character precedes the closing "}".
C5_WhitespaceInsideBraces ==
    (Called /\ result.ok) =>
        /\ is_whitespace(input[BraceAt + 1])
        /\ input[result.pos] = "}"
        /\ is_whitespace(input[result.pos - 1])

C5_Witness ==
    /\ call.fn = "unnamed_block"
    /\ result.ok
    /\ result.pos = Len(input)
    /\ Body = <<"\n">> \o FooLit \o <<" ">>

\* C9: the name a named block returns is the text between the tag and the
\* "{" without its leading and trailing whitespace, the whitespace
\* inside it unchanged.
C9_NameIsTrimmedRegion == (Named /\ result.ok) => result.val.name = Trim(Region)

\* The part of a named block before its item: the offset at which the
\* item parser is first run, or the failure that keeps it from running.
ItemsStart(s) ==
    Then(tag(ModuleTag, s, 0), LAMBDA r1 :
    Then(IF call.fn = "unnamed_block" THEN Ok(r1.pos, <<>>) ELSE space1(s, r1.pos),
         LAMBDA r2 :
    Then(IF call.fn = "unnamed_block" THEN Ok(r1.pos, <<>>)
         ELSE string_with_spaces_delimited_by_open_brace(s, r2.pos), LAMBDA r3 :
    Then(multispace1(s, r3.pos), LAMBDA r4 :
    Then(tag(OpenBrace, s, r4.pos), LAMBDA r5 :
    multispace1(s, r5.pos))))))

\* The run of the item parser that failed and ended the parse of the body:
\* the first item's, or in a repeated block the one after the last
\* separator.  NoResult when the item parser did not run or did not fail.
FailedItem ==
    LET h == ItemsStart(input)
    IN  IF ~h.ok THEN NoResult
        ELSE IF ~Repeated
             THEN LET r == Parse(call.item, input, h.pos)
                  IN  IF r.ok THEN NoResult ELSE r
        ELSE LET l == separated_list1(call.item, input, h.pos)
             IN  IF ~l.ok THEN l
                 ELSE LET sep == multispace1(input, l.pos)
                      IN  IF ~sep.ok THEN NoResult
                          ELSE Parse(call.item, input, sep.pos)

\* C10: whenever a block parser fails after its item parser failed on an
\* item of the body, the error it returns is the item parser's error: the
\* same position and the same kind.
C10_ItemErrorUnchanged ==
    (Called /\ ~result.ok /\ FailedItem # NoResult) =>
        /\ result.pos = FailedItem.pos
        /\ result.kind = FailedItem.kind

\* The same, of the first item alone.
C10_FirstItemErrorUnchanged ==
    (Called /\ ~result.ok /\ ItemsStart(input).ok
        /\ ~Parse(call.item, input, ItemsStart(input).pos).ok) =>
        /\ result.pos = Parse(call.item, input, ItemsStart(input).pos).pos
        /\ result.kind = Parse(call.item, input, ItemsStart(input).pos).kind

\* C11: named_block, named_block_repeated and module return a success or
\* an ordinary error value on every input, a character of more than one
\* byte right before the "{" included: no input makes name extraction
\* panic.
C11_NoPanic == Named => ~IsPanic(result)

-----------------------------------------------------------------------------
(* Well-formed blocks: a name of words, then items the item parser accepts *)

\* The most words a generated name holds.
MaxWords == 2

Words == {<<"a">>, <<"B", "1">>, <<"U+E9">>}

\* Names: words separated by single spaces.
Names == { Join(ws, <<" ">>) : ws \in UNION {[1..k -> Words] : k \in 1..MaxWords} }

\* For an item parser, texts it accepts, each with the value it stands for.
GoodItems(p) ==
    CASE p = <<"foo">> -> { [text |-> FooLit, value |-> FooLit] }
      [] p = <<"block_item">> ->
            { [text |-> BlockItemLit \o <<" ", "7">>, value |-> 7],
              [text |-> BlockItemLit \o <<" ", "\t", "1", "2">>, value |-> 12],
              [text |-> BlockItemLit \o <<" ", "2", "5", "5">>, value |-> 255] }
      [] p = <<"item", "Nil">> ->
            { [text |-> ItemTag \o <<" ", "a", " ", "{", " ">> \o NilLit \o <<" ", "}">>,
               value |-> [name |-> <<"a">>, item |-> NilLit]],
              [text |-> ItemTag \o <<" ", "b", " ", "c", "\n", "{", "\n">> \o NilLit
                            \o <<"\n", "}">>,
               value |-> [name |-> <<"b", " ", "c">>, item |-> NilLit]] }

\* The brace on the line of the name, or on the following line.
Gaps == {<<" ">>, <<"\n">>}

InitModule ==
    /\ call = NoCall
    /\ result = NoResult
    /\ \E p \in ItemParsers, n \in 1..MaxItems, name \in Names, gap \in Gaps,
          pad \in Seps, sep \in Seps :
        \E items \in [1..n -> GoodItems(p)] :
            /\ src = [parser |-> p, name |-> name, gap |-> gap, items |-> items]
            /\ input = ModuleTag \o <<" ">> \o name \o gap \o OpenBrace \o pad
                           \o Join([k \in 1..n |-> items[k].text], sep)
                           \o pad \o CloseBrace

SpecModule == InitModule /\ [][Next]_vars

\* The values the items of the input stand for, in source order.
ItemValues == [k \in 1..Len(src.items) |-> src.items[k].value]

\* C1: on `module <Name> { i1 ... in }`, n >= 1, whose items the item
\* parser accepts and whitespace separates, module and
\* named_block_repeated succeed with the name Name and the n item values
\* in source order.
C1_ModuleYieldsItemsInOrder ==
    (Repeated /\ call.item = src.parser) =>
        /\ result.ok
        /\ result.pos = Len(input)
        /\ result.val.name = src.name
        /\ Definitions = ItemValues

C1_Witness ==
    /\ call.fn = "module"
    /\ call.item = <<"block_item">>
    /\ result.ok
    /\ src.name = <<"a", " ", "B", "1">>
    /\ result.val.definitions = <<255, 7>>

\* C2: for a name N of words separated by single spaces, named_block
\* returns exactly N and the item's value, with the "{" on the line of the
\* name and with the "{" on the following line alike.
C2_NameSameOnBothLayouts ==
    (call.fn = "named_block" /\ call.item = src.parser /\ Len(src.items) = 1) =>
        /\ result.ok
        /\ result.val.name = src.name
        /\ result.val.item = src.items[1].value

C2_Witness ==
    /\ call.fn = "named_block"
    /\ call.item = <<"foo">>
    /\ src.gap = <<"\n">>
    /\ result.ok
    /\ result.val = [name |-> <<"a", " ", "a">>, item |-> FooLit]

-----------------------------------------------------------------------------
(* Recipe texts *)

\* The most fields a generated recipe body holds after its ingredients.
MaxFields == 5

\* The most ingredients a generated recipe holds.
MaxIngredients == 2

\* Identifiers: runs of letters, digits and dots.
Identifiers == {<<"A", "b">>, <<"x", "1">>, <<"B", ".", "c">>}

\* Time texts, each with the decimal number m * 10^e it denotes.
Times ==
    { [text |-> <<"4", "0", ".", "0">>, value |-> [m |-> 4, e |-> 1]],
      [text |-> <<"-", "1">>, value |-> [m |-> -1, e |-> 0]],
      [text |-> <<".", "5">>, value |-> [m |-> 5, e |-> -1]],
      [text |-> <<"2", "e", "1">>, value |-> [m |-> 2, e |-> 1]] }

Field(kind, lit, text, value) ==
    [kind |-> kind, text |-> lit \o Colon \o text \o Comma, value |-> <<value>>]

ResultFields == { Field("Result", ResultLit, id, id) : id \in Identifiers }

TimeFields == { Field("Time", TimeLit, tm.text, tm.value) : tm \in Times }

CategoryFields == { Field("Category", CategoryLit, id, id) : id \in Identifiers }

NeedToBeLearnFields ==
    { Field("NeedToBeLearn", NeedToBeLearnLit, TrueLit, TRUE),
      Field("NeedToBeLearn", NeedToBeLearnLit, FalseLit, FALSE) }

\* One field of each kind, and a field the schema does not know.
PlainFields ==
    { Field("Result", ResultLit, <<"A", "b">>, <<"A", "b">>),
      Field("Time", TimeLit, <<"4", "0", ".", "0">>, [m |-> 4, e |-> 1]),
      Field("Category", CategoryLit, <<"x", "1">>, <<"x", "1">>),
      Field("NeedToBeLearn", NeedToBeLearnLit, TrueLit, TRUE),
      Field("Extra", <<"E", "x">>, <<"y">>, <<"y">>) }

Schema == <<"Result", "Time", "Category", "NeedToBeLearn">>

\* Comma-terminated ingredients, then fields, whitespace between them.
RecipeText(name, gap, ingredients, fields, sep) ==
    RecipeTag \o <<" ">> \o name \o gap \o OpenBrace \o sep
        \o Join([k \in 1..Len(ingredients) |-> ingredients[k] \o Comma]
                       \o [k \in 1..Len(fields) |-> fields[k].text], sep)
        \o sep \o CloseBrace

RecipeSrc(name, gap, ingredients, fields) ==
    [name |-> name, gap |-> gap, ingredients |-> ingredients, fields |-> fields]

\* Every sequence of plain fields after one ingredient, and every choice of
\* values and ingredients with the fields in schema order.
InitRecipe ==
    /\ call = NoCall
    /\ result = NoResult
    /\ \/ \E n \in 0..MaxFields, sep \in Seps :
            \E fields \in [1..n -> PlainFields] :
                /\ src = RecipeSrc(<<"a">>, <<" ">>, <<<<"A", "b">>>>, fields)
                /\ input = RecipeText(<<"a">>, <<" ">>, <<<<"A", "b">>>>, fields, sep)
       \/ \E n \in 1..MaxIngredients, name \in {<<"a">>, <<"a", " ", "B", "1">>},
             gap \in Gaps, f1 \in ResultFields, f2 \in TimeFields,
             f3 \in CategoryFields, f4 \in NeedToBeLearnFields :
            \E ingredients \in [1..n -> Identifiers] :
                /\ src = RecipeSrc(name, gap, ingredients, <<f1, f2, f3, f4>>)
                /\ input = RecipeText(name, gap, ingredients, <<f1, f2, f3, f4>>,
                                      <<"\n", " ">>)

CallRecipe ==
    /\ call = NoCall
    /\ call' = [fn |-> "recipe", item |-> <<"recipe_body">>]
    /\ result' = recipe(input, 0)
    /\ UNCHANGED <<input, src>>

\* recipe_body on its own, on the text after the "{" and its whitespace.
CallRecipeBody ==
    /\ call = NoCall
    /\ call' = [fn |-> "recipe_body", item |-> <<>>]
    /\ result' = recipe_body(input, RunEnd(Multispace, input, FirstBrace(input, 0) + 1))
    /\ UNCHANGED <<input, src>>

NextRecipe == CallRecipe \/ CallRecipeBody

SpecRecipe == InitRecipe /\ [][NextRecipe]_vars

FieldKinds == [k \in 1..Len(src.fields) |-> src.fields[k].kind]

\* The value of the field of the input that has kind `kind`.
FieldOf(kind) ==
    (CHOOSE f \in {src.fields[k] : k \in 1..Len(src.fields)} : f.kind = kind).value[1]

\* C6: recipe succeeds only if the fields after the ingredients are
\* exactly Result, Time, Category, NeedToBeLearn, each once and in that
\* order, with nothing else before the closing brace.
C6_FieldsInSchemaOrder ==
    (call.fn = "recipe" /\ result.ok) => FieldKinds = Schema

C6_Witness ==
    /\ call.fn = "recipe"
    /\ result.ok
    /\ FieldKinds = Schema
    /\ result.pos = Len(input)

\* C7: on a well-formed recipe text, recipe succeeds and returns the name,
\* the ingredients in source order without their commas, and the values
\* of Result, Time, Category and NeedToBeLearn.
C7_RecipeFieldsReturned ==
    (call.fn = "recipe" /\ FieldKinds = Schema) =>
        /\ result.ok
        /\ result.val = [name |-> src.name, ingredients |-> src.ingredients,
                         result |-> FieldOf("Result"), time |-> FieldOf("Time"),
                         category |-> FieldOf("Category"),
                         need_to_be_learned |-> FieldOf("NeedToBeLearn")]

\* The same, of the recipes whose Result and Category hold no dot.
C7_AlphanumericRecipeFieldsReturned ==
    (call.fn = "recipe" /\ FieldKinds = Schema
        /\ "." \notin {FieldOf("Result")[k] : k \in 1..Len(FieldOf("Result"))}
        /\ "." \notin {FieldOf("Category")[k] : k \in 1..Len(FieldOf("Category"))}) =>
        /\ result.ok
        /\ result.val = [name |-> src.name, ingredients |-> src.ingredients,
                         result |-> FieldOf("Result"), time |-> FieldOf("Time"),
                         category |-> FieldOf("Category"),
                         need_to_be_learned |-> FieldOf("NeedToBeLearn")]

\* C8: the values of Result and Category are identifiers: a value holding
\* a dot, such as B.c, is accepted and returned whole.
C8_DottedResultAccepted ==
    (call.fn = "recipe" /\ FieldKinds = Schema) =>
        /\ result.ok
        /\ result.val.result = FieldOf("Result")
        /\ result.val.category = FieldOf("Category")

-----------------------------------------------------------------------------
(* Name extraction alone: the text is what is left after the block tag and *)
(* the spaces behind it.                                                   *)

\* The texts left after a tag: with a "{" and without one.
NameTexts == Texts({"a", " ", "{", "U+E9"}, MaxRegion)

InitName ==
    /\ input \in NameTexts
    /\ src = <<>>
    /\ call = NoCall
    /\ result = NoResult

CallNonCurlyBrace ==
    /\ call = NoCall
    /\ call' = [fn |-> "non_curly_brace", item |-> <<>>]
    /\ result' = non_curly_brace(input, 0)
    /\ UNCHANGED <<input, src>>

CallStringWithSpaces ==
    /\ call = NoCall
    /\ call' = [fn |-> "string_with_spaces_delimited_by_open_brace", item |-> <<>>]
    /\ result' = string_with_spaces_delimited_by_open_brace(input, 0)
    /\ UNCHANGED <<input, src>>

NextName == CallNonCurlyBrace \/ CallStringWithSpaces

SpecName == InitName /\ [][NextName]_vars

NoBrace == \A k \in 1..Len(input) : input[k] # "{"

\* C12: when the text left after the tag and its separator holds no "{",
\* string_with_spaces_delimited_by_open_brace fails: it returns no
\* (name, remainder) pair.
C12_BracelessFails ==
    (call.fn = "string_with_spaces_delimited_by_open_brace" /\ NoBrace) =>
        ~result.ok

-----------------------------------------------------------------------------
(* Fields: a text put together from the parts of a field, well formed or   *)
(* not, is handed to field_value.                                          *)

TypeLit == <<"T","y","p","e">>

Equals == <<"=">>

\* Whitespace before the field and around its separator.
FieldGaps == {<<>>, <<" ">>, <<"\t">>, <<" ", "\t">>, <<"\n">>}

FieldNames == {TypeLit, <<"T","y","p">>, <<>>}

FieldSeparators == {Equals, Colon, <<>>}

FieldValues == {<<"F","o","o","d">>, TrueLit, <<"1",".","5">>, <<>>}

\* What follows the value.
FieldTails ==
    { Comma, <<>>, <<" ", ",">>, <<" ">>, <<"\n">>, CloseBrace,
      <<",", " ", "}">>, <<",", "x">> }

ValueParsers == {<<"alphanumeric1">>, <<"float">>, <<"bool_value">>}

FieldText(f) == f.lead \o f.name \o f.ws1 \o f.sep \o f.ws2 \o f.value \o f.tail

InitField ==
    /\ src \in [lead : FieldGaps, name : FieldNames, ws1 : FieldGaps,
                 sep : FieldSeparators, ws2 : FieldGaps, value : FieldValues,
                 tail : FieldTails]
    /\ input = FieldText(src)
    /\ call = NoCall
    /\ result = NoResult

CallFieldValue ==
    /\ call = NoCall
    /\ \E separator \in {Equals, Colon}, value \in ValueParsers :
        /\ call' = [fn |-> "field_value", item |-> value,
                     field_name |-> TypeLit, separator |-> separator]
        /\ result' = field_value(TypeLit, separator, value, input, 0)
    /\ UNCHANGED <<input, src>>

NextField == CallFieldValue

SpecField == InitField /\ [][NextField]_vars

Horizontal(t) == \A k \in 1..Len(t) : t[k] \in Space

\* The value parser accepts the whole of the text t.
Accepted(value, t) == Parse(value, t, 0).ok /\ Parse(value, t, 0).pos = Len(t)

\* The parts of the text other than the whitespace around the separator
\* are those of a field: name, separator, a value and a "," right after it.
FieldParts ==
    /\ Horizontal(src.lead)
    /\ src.name = call.field_name
    /\ src.sep = call.separator
    /\ Accepted(call.item, src.value)
    /\ src.tail # <<>>
    /\ Head(src.tail) = ","

\* On success: the value parser's result, and the offset right after the
\* comma.
FieldResult ==
    /\ result.val = Parse(call.item, src.value, 0).val
    /\ result.pos = Len(input) - Len(src.tail) + 1

\* C13: field_value succeeds exactly on optional leading horizontal
\* whitespace, the name, optional whitespace of any kind, the separator,
\* optional whitespace of any kind, a text the value parser accepts and a
\* "," right after it; it returns the value parser's result and the
\* remainder right after the comma, and fails whenever the comma is absent.
C13_FieldValueAnyWhitespace ==
    (call.fn = "field_value") =>
        /\ result.ok <=>
                (FieldParts /\ AllWhitespace(src.ws1) /\ AllWhitespace(src.ws2))
        /\ result.ok => FieldResult

\* C13, amended: the same with the whitespace around the separator
\* horizontal (spaces and tabs): a line break between the name, the
\* separator and the value makes field_value fail.
C13_FieldValueHorizontalWhitespace ==
    (call.fn = "field_value") =>
        /\ result.ok <=>
                (FieldParts /\ Horizontal(src.ws1) /\ Horizontal(src.ws2))
        /\ result.ok => FieldResult

\* A field with whitespace around its separator is parsed, and the same
\* field without its comma is not.
C13_Witness ==
    /\ call.fn = "field_value"
    /\ result.ok
    /\ src.lead # <<>> /\ src.ws1 # <<>> /\ src.ws2 # <<>>
    /\ src.tail = <<",", " ", "}">>
    /\ ~field_value(call.field_name, call.separator, call.item,
                    FieldText([src EXCEPT !.tail = <<" ", "}">>]), 0).ok

====
